---- MODULE Spec2Model ----
(***************************************************************************)
(* A model of scripts/catalog_media.py: the catalog store (tables runs,    *)
(* chunks, files of one SQLite database in WAL mode), the chunk lifecycle  *)
(* tracker update_chunk, and the batched ingest of a raw rclone listing.   *)
(* Several operating-system processes run one invocation of the script     *)
(* each, against the same database file.                                   *)
(*                                                                         *)
(* Text is modelled as sequences of one-character strings, so that         *)
(* splitting, integer parsing and extension classification are computed.   *)
(* A statement that writes and the commit that follows it are one step:    *)
(* the script holds a write transaction only from an execute to the commit *)
(* on the next line, and a WAL reader sees committed data only.            *)
(***************************************************************************)
EXTENDS Integers, Sequences, FiniteSets, TLC

(***************************************************************************)
(* Bounds of the model.                                                    *)
(***************************************************************************)
\* Number of chunk-status invocations in one behaviour of SpecChunk.
MaxChunkCalls == 3
\* Number of ingest invocations in one behaviour of SpecIngest.
MaxIngests == 2
\* Number of invocations, of either kind, in one behaviour of Spec.
MaxInvocations == 2
\* Latest reading of the wall clock (seconds); timestamps are 1..MaxClock.
MaxClock == 2

\* SQL NULL / Python None in a nullable timestamp column.
NULL == 0

\* batch_size of ingest (1000 in the script), scaled: the script only
\* compares len(batch) with it.
batch_size == 2

\* The processes that may run the script at the same time.
Procs == {"p1", "p2"}

(***************************************************************************)
(* Text.                                                                   *)
(***************************************************************************)
Digits == <<"0", "1", "2", "3", "4", "5", "6", "7", "8", "9">>

UpperCase ==
    <<"A", "B", "C", "D", "E", "F", "G", "H", "I", "J", "K", "L", "M",
      "N", "O", "P", "Q", "R", "S", "T", "U", "V", "W", "X", "Y", "Z">>

LowerCase ==
    <<"a", "b", "c", "d", "e", "f", "g", "h", "i", "j", "k", "l", "m",
      "n", "o", "p", "q", "r", "s", "t", "u", "v", "w", "x", "y", "z">>

IsDigit(c) == \E i \in 1..Len(Digits) : Digits[i] = c

DigitVal(c) == (CHOOSE i \in 1..Len(Digits) : Digits[i] = c) - 1

\* str.isspace for the characters that occur in a line after rstrip("\n").
IsSpace(c) == c \in {" ", "\t", "\n"}

\* One character of str.lower().
LowerChar(c) ==
    IF \E i \in 1..Len(UpperCase) : UpperCase[i] = c
    THEN LowerCase[CHOOSE i \in 1..Len(UpperCase) : UpperCase[i] = c]
    ELSE c

\* str.lower()
lower(s) == [i \in 1..Len(s) |-> LowerChar(s[i])]

\* line.rstrip("\n"): every trailing newline is removed.
RECURSIVE rstrip_newline(_)
rstrip_newline(s) ==
    IF s # <<>> /\ s[Len(s)] = "\n"
    THEN rstrip_newline(SubSeq(s, 1, Len(s) - 1))
    ELSE s

\* Leading whitespace removed.
RECURSIVE lstrip(_)
lstrip(s) ==
    IF s # <<>> /\ IsSpace(s[1]) THEN lstrip(Tail(s)) ELSE s

\* Length of the leading run of non-whitespace characters.
RECURSIVE WordLen(_)
WordLen(s) ==
    IF s = <<>> \/ IsSpace(s[1]) THEN 0 ELSE 1 + WordLen(Tail(s))

\* str.split(maxsplit=n) with the default separator: runs of whitespace
\* separate the fields, at most n splits are made, and the remainder (its
\* leading whitespace removed, its trailing whitespace kept) is the last
\* field.
RECURSIVE split(_, _)
split(s, maxsplit) ==
    LET t == lstrip(s) IN
    IF t = <<>> THEN <<>>
    ELSE IF maxsplit = 0 THEN <<t>>
    ELSE LET n == WordLen(t) IN
         <<SubSeq(t, 1, n)>> \o split(SubSeq(t, n + 1, Len(t)), maxsplit - 1)

\* int(size_str) succeeds: an optional sign and then decimal digits.
IsIntLiteral(s) ==
    LET body == IF s # <<>> /\ s[1] \in {"-", "+"} THEN Tail(s) ELSE s IN
    /\ body # <<>>
    /\ \A i \in 1..Len(body) : IsDigit(body[i])

RECURSIVE DecimalValue(_)
DecimalValue(ds) ==
    IF ds = <<>> THEN 0
    ELSE 10 * DecimalValue(SubSeq(ds, 1, Len(ds) - 1)) + DigitVal(ds[Len(ds)])

\* int(size_str), where it succeeds.
IntOf(s) ==
    IF s[1] = "-" THEN 0 - DecimalValue(Tail(s))
    ELSE IF s[1] = "+" THEN DecimalValue(Tail(s))
    ELSE DecimalValue(s)

\* Index of the last occurrence of character c in s, 0 if there is none.
LastIndexOf(s, c) ==
    IF \E i \in 1..Len(s) : s[i] = c
    THEN CHOOSE i \in 1..Len(s) : s[i] = c /\ \A j \in (i + 1)..Len(s) : s[j] # c
    ELSE 0

\* os.path.basename(path): what follows the last "/".
basename(path) == SubSeq(path, LastIndexOf(path, "/") + 1, Len(path))

(***************************************************************************)
(* Extension classifier.                                                   *)
(***************************************************************************)
PHOTO_EXTS ==
    { <<"j", "p", "g">>, <<"j", "p", "e", "g">>, <<"h", "e", "i", "c">>,
      <<"h", "e", "i", "f">>, <<"p", "n", "g">>, <<"g", "i", "f">>,
      <<"t", "i", "f">>, <<"t", "i", "f", "f">>, <<"b", "m", "p">>,
      <<"w", "e", "b", "p">>, <<"d", "n", "g">>, <<"c", "r", "2">>,
      <<"c", "r", "3">>, <<"n", "e", "f">>, <<"a", "r", "w">>,
      <<"r", "a", "f">>, <<"o", "r", "f">>, <<"r", "w", "2">>,
      <<"p", "e", "f">>, <<"s", "r", "2">> }

VIDEO_EXTS ==
    { <<"m", "p", "4">>, <<"m", "o", "v">>, <<"m", "4", "v">>,
      <<"a", "v", "i">>, <<"m", "k", "v">>, <<"m", "p", "g">>,
      <<"m", "p", "e", "g">>, <<"3", "g", "p">>, <<"3", "g", "p", "p">>,
      <<"m", "t", "s">>, <<"m", "2", "t", "s">>, <<"t", "s">>,
      <<"w", "m", "v">>, <<"f", "l", "v">>, <<"w", "e", "b", "m">> }

\* classify_ext(path): (ext, is_media, media_kind, ignored_reason)
classify_ext(path) ==
    LET base == basename(path)
        dot  == LastIndexOf(base, ".")
        ext  == lower(SubSeq(base, dot + 1, Len(base)))
    IN  IF dot = 0
        THEN [ext |-> <<>>, is_media |-> FALSE, media_kind |-> "other",
              ignored_reason |-> "no_extension"]
        ELSE IF ext \in PHOTO_EXTS
        THEN [ext |-> ext, is_media |-> TRUE, media_kind |-> "photo",
              ignored_reason |-> ""]
        ELSE IF ext \in VIDEO_EXTS
        THEN [ext |-> ext, is_media |-> TRUE, media_kind |-> "video",
              ignored_reason |-> ""]
        ELSE [ext |-> ext, is_media |-> FALSE, media_kind |-> "other",
              ignored_reason |-> "non_media_extension"]

(***************************************************************************)
(* The raw listing files that exist on disk, as the lines a text-mode      *)
(* iteration over the file yields (each with its newline, when it has one).*)
(***************************************************************************)
\* "10 d t a.jpg" | "" | "x d t c.txt" | "30 d t" | "30 d t n o"
\* Two valid records: the loop ends on a flush and no batch is left over.
f1_lines ==
    << <<"1", "0", " ", "d", " ", "t", " ", "a", ".", "j", "p", "g", "\n">>,
       <<"\n">>,
       <<"x", " ", "d", " ", "t", " ", "c", ".", "t", "x", "t", "\n">>,
       <<"3", "0", " ", "d", " ", "t", "\n">>,
       <<"3", "0", " ", "d", " ", "t", " ", "n", " ", "o", "\n">> >>

\* "11 d t a.jpg" | "-5 d t b.MOV" | "12 d t a.jpg" (no final newline)
\* Three valid records, a path listed twice: one flush in the loop and a
\* last batch of one.
f2_lines ==
    << <<"1", "1", " ", "d", " ", "t", " ", "a", ".", "j", "p", "g", "\n">>,
       <<"-", "5", " ", "d", " ", "t", " ", "b", ".", "M", "O", "V", "\n">>,
       <<"1", "2", " ", "d", " ", "t", " ", "a", ".", "j", "p", "g">> >>

\* The file system: raw-file path -> lines.  A path outside the domain
\* does not exist, and open() raises FileNotFoundError for it.
RawFiles == [f1 |-> f1_lines, f2 |-> f2_lines]

ExistingFiles == DOMAIN RawFiles

\* A --raw-file argument naming no file.
MissingFile == "missing"

(***************************************************************************)
(* Command-line arguments (parse_args).                                    *)
(***************************************************************************)
\* An optional argument that was not given (None).
NoArg == ""

STATUSES == {"listing", "listed", "ingested", "error"}

RunIds == {"r1"}
SourceNames == {"s1"}
Remotes == {"gdrive:"}
Commands == {"rclone lsl"}
ChunkNames == {"c1"}

\* Invocations with --chunk-status; --chunk-name may be absent (the check
\* of chunk_name precedes every use of the status, so one status stands
\* for all of them there).
ChunkArgs ==
    [run_id : RunIds, source : SourceNames, remote : Remotes,
     raw_file : {"f1"}, rclone_command : Commands,
     chunk_name : ChunkNames, chunk_status : STATUSES]
    \cup
    [run_id : RunIds, source : SourceNames, remote : Remotes,
     raw_file : {"f1"}, rclone_command : Commands,
     chunk_name : {NoArg}, chunk_status : {"listing"}]

\* Invocations without --chunk-status.
IngestArgs ==
    [run_id : RunIds, source : SourceNames, remote : Remotes,
     raw_file : ExistingFiles \cup {MissingFile}, rclone_command : Commands,
     chunk_name : {NoArg}, chunk_status : {NoArg}]

(***************************************************************************)
(* Line parser and row assembly (body of the loop of ingest).              *)
(***************************************************************************)
\* What one line of the raw file turns into.
ParseLine(raw) ==
    LET line  == rstrip_newline(raw)
        parts == split(line, 3)
    IN  IF line = <<>> THEN [kind |-> "blank"]
        ELSE IF Len(parts) # 4
        THEN [kind |-> "error", msg |-> "Unparseable line: ", line |-> line]
        ELSE IF ~IsIntLiteral(parts[1])
        THEN [kind |-> "error", msg |-> "Invalid size: ", line |-> line]
        ELSE [kind |-> "record", size |-> IntOf(parts[1]),
              modtime |-> parts[2] \o <<"T">> \o parts[3], path |-> parts[4]]

\* Every line of every raw file, parsed; and the classification of the
\* path of every valid record.
ParsedFiles ==
    [f \in DOMAIN RawFiles |->
        [i \in 1..Len(RawFiles[f]) |-> ParseLine(RawFiles[f][i])]]

Classified ==
    [f \in DOMAIN RawFiles |->
        [i \in 1..Len(RawFiles[f]) |->
            IF ParsedFiles[f][i].kind = "record"
            THEN classify_ext(ParsedFiles[f][i].path)
            ELSE classify_ext(<<>>)]]

\* The tuple appended to batch for a valid record classified as c.
FileTuple(a, rec, c) ==
    [run_id |-> a.run_id, source |-> a.source, remote |-> a.remote,
     path |-> rec.path, size |-> rec.size, modtime |-> rec.modtime,
     ext |-> c.ext, is_media |-> IF c.is_media THEN 1 ELSE 0,
     media_kind |-> c.media_kind,
     ignored_reason |->
        IF ~c.is_media /\ c.ignored_reason = "" THEN "non_media_extension"
        ELSE c.ignored_reason]

\* The tuples of the valid records among the first n lines of the raw file
\* of arguments a.
RECURSIVE ValidTuples(_, _)
ValidTuples(a, n) ==
    IF n = 0 THEN <<>>
    ELSE LET r == ParsedFiles[a.raw_file][n] IN
         ValidTuples(a, n - 1) \o
            (IF r.kind = "record"
             THEN <<FileTuple(a, r, Classified[a.raw_file][n])>> ELSE <<>>)

(***************************************************************************)
(* State.                                                                  *)
(***************************************************************************)
VARIABLES
    schema,           \* names of the tables and indexes that exist
    runs,             \* rows of table runs
    chunks,           \* rows of table chunks
    files,            \* rows of table files
    sqlite_sequence,  \* largest id AUTOINCREMENT has given to a files row
    err_log,          \* lines of parse_errors_<source>_<run_id>.log
    now,              \* the wall clock at its last reading, in seconds
    pc,               \* where each process is in the script
    args,             \* the arguments of each process's invocation
    frame,            \* the local variables of each process's invocation
    invocations,      \* number of invocations started so far
    hist              \* history: the invocations that have ended

vars == <<schema, runs, chunks, files, sqlite_sequence, err_log, now, pc,
          args, frame, invocations, hist>>

TableNames == {"runs", "chunks", "files"}

IndexNames ==
    {"idx_chunks_status", "idx_files_source_media", "idx_files_path",
     "idx_files_size", "idx_files_run"}

\* ensure_schema: CREATE TABLE / INDEX IF NOT EXISTS, and commit.
ensure_schema(s) == s \cup TableNames \cup IndexNames

\* What a reader of the database sees.
View(r, c, f) == [runs |-> r, chunks |-> c, files |-> f]

(***************************************************************************)
(* Table chunks: PRIMARY KEY (run_id, source, chunk_name).                 *)
(***************************************************************************)
\* ChunkKeyMatch as it would be with the key (run_id, source): the chunk
\* name left out of the WHERE clauses.
ChunkKeyMatch_without_chunk_name(r, a) ==
    r.run_id = a.run_id /\ r.source = a.source

ChunkKeyMatch(r, a) ==
    r.run_id = a.run_id /\ r.source = a.source /\ r.chunk_name = a.chunk_name

\* The SELECT of update_chunk and its fetchone(): the three timestamps of
\* the row of the key, or None.
SelectChunk(tbl, a) ==
    IF \E r \in tbl : ChunkKeyMatch(r, a)
    THEN LET r == CHOOSE r \in tbl : ChunkKeyMatch(r, a) IN
         [found |-> TRUE, started_at |-> r.started_at,
          listed_at |-> r.listed_at, completed_at |-> r.completed_at]
    ELSE [found |-> FALSE, started_at |-> NULL, listed_at |-> NULL,
          completed_at |-> NULL]

\* ChunkStamps as it would be if the timestamps of the row read were not
\* carried over to the write.
ChunkStamps_forgetting(row, status, ts) ==
    [started_at   |-> IF status = "listing" THEN ts ELSE NULL,
     listed_at    |-> IF status = "listed" THEN ts ELSE NULL,
     completed_at |-> IF status = "ingested" THEN ts ELSE NULL]

\* ChunkStamps as it would be if the end of a chunk in error were recorded
\* like the end of an ingest, in completed_at.
ChunkStamps_error_completes(row, status, ts) ==
    [started_at   |-> IF status = "listing" /\ row.started_at = NULL
                      THEN ts ELSE row.started_at,
     listed_at    |-> IF status = "listed" THEN ts ELSE row.listed_at,
     completed_at |-> IF status \in {"ingested", "error"}
                      THEN ts ELSE row.completed_at]

\* ChunkStamps as it would be if started_at were set by the call that
\* makes the row only.
ChunkStamps_started_on_insert(row, status, ts) ==
    [started_at   |-> IF status = "listing" /\ ~row.found
                      THEN ts ELSE row.started_at,
     listed_at    |-> IF status = "listed" THEN ts ELSE row.listed_at,
     completed_at |-> IF status = "ingested" THEN ts ELSE row.completed_at]

\* The timestamps update_chunk writes, from the row it read.
ChunkStamps(row, status, ts) ==
    [started_at   |-> IF status = "listing" /\ row.started_at = NULL
                      THEN ts ELSE row.started_at,
     listed_at    |-> IF status = "listed" THEN ts ELSE row.listed_at,
     completed_at |-> IF status = "ingested" THEN ts ELSE row.completed_at]

\* The row of the INSERT INTO chunks.
ChunkRow(a, status, st, ts) ==
    [run_id |-> a.run_id, source |-> a.source, remote |-> a.remote,
     chunk_name |-> a.chunk_name, rclone_command |-> a.rclone_command,
     raw_file |-> a.raw_file, status |-> status,
     started_at |-> st.started_at, listed_at |-> st.listed_at,
     completed_at |-> st.completed_at, updated_at |-> ts]

\* INSERT INTO chunks is rejected (IntegrityError) when the key is taken.
ChunkInsertConflict(tbl, a) == \E r \in tbl : ChunkKeyMatch(r, a)

\* UpdateChunkRows as it would be if a row that has reached status error
\* kept that status: error as a final state.
UpdateChunkRows_error_final(tbl, a, status, st, ts) ==
    { IF ChunkKeyMatch(r, a) /\ r.status # "error"
      THEN [r EXCEPT !.remote = a.remote,
                     !.rclone_command = a.rclone_command,
                     !.raw_file = a.raw_file, !.status = status,
                     !.started_at = st.started_at,
                     !.listed_at = st.listed_at,
                     !.completed_at = st.completed_at,
                     !.updated_at = ts]
      ELSE r : r \in tbl }

\* UPDATE chunks SET ... WHERE run_id = ? AND source = ? AND chunk_name = ?
UpdateChunkRows(tbl, a, status, st, ts) ==
    { IF ChunkKeyMatch(r, a)
      THEN [r EXCEPT !.remote = a.remote,
                     !.rclone_command = a.rclone_command,
                     !.raw_file = a.raw_file, !.status = status,
                     !.started_at = st.started_at,
                     !.listed_at = st.listed_at,
                     !.completed_at = st.completed_at,
                     !.updated_at = ts]
      ELSE r : r \in tbl }

\* The write of update_chunk, from the row it read earlier: the table
\* afterwards, and whether the statement succeeded.
ChunkWrite(tbl, a, status, row, ts) ==
    LET st == ChunkStamps(row, status, ts) IN
    IF ~row.found
    THEN IF ChunkInsertConflict(tbl, a)
         THEN [ok |-> FALSE, rows |-> tbl]
         ELSE [ok |-> TRUE, rows |-> tbl \cup {ChunkRow(a, status, st, ts)}]
    ELSE [ok |-> TRUE, rows |-> UpdateChunkRows(tbl, a, status, st, ts)]

(***************************************************************************)
(* Table runs: PRIMARY KEY (run_id, source).                               *)
(***************************************************************************)
RunKeyMatch(r, a) == r.run_id = a.run_id /\ r.source = a.source

\* InsertOrReplaceRun as a plain INSERT into a table without the PRIMARY
\* KEY.
InsertOrReplaceRun_plain_insert(tbl, a, started_at) ==
    tbl \cup
    {[run_id |-> a.run_id, source |-> a.source, remote |-> a.remote,
      started_at |-> started_at, raw_file |-> a.raw_file,
      rclone_command |-> a.rclone_command, completed_at |-> NULL]}

\* INSERT OR REPLACE INTO runs (...) without completed_at: the row of the
\* key is deleted and the new one has completed_at NULL.
InsertOrReplaceRun(tbl, a, started_at) ==
    {r \in tbl : ~RunKeyMatch(r, a)} \cup
    {[run_id |-> a.run_id, source |-> a.source, remote |-> a.remote,
      started_at |-> started_at, raw_file |-> a.raw_file,
      rclone_command |-> a.rclone_command, completed_at |-> NULL]}

\* UPDATE runs SET completed_at = ? WHERE run_id = ? AND source = ?
CompleteRun(tbl, a, completed_at) ==
    { IF RunKeyMatch(r, a) THEN [r EXCEPT !.completed_at = completed_at]
      ELSE r : r \in tbl }

(***************************************************************************)
(* Table files: id INTEGER PRIMARY KEY AUTOINCREMENT,                      *)
(* UNIQUE(run_id, source, path).                                           *)
(***************************************************************************)
\* FileKeyMatch as it would be if the UNIQUE constraint left out path.
FileKeyMatch_without_path(r, t) ==
    r.run_id = t.run_id /\ r.source = t.source

\* Rows r and t conflict on UNIQUE(run_id, source, path).
FileKeyMatch(r, t) ==
    r.run_id = t.run_id /\ r.source = t.source /\ r.path = t.path

\* A files row with the id the table gives it.
WithId(t, id) ==
    [id |-> id, run_id |-> t.run_id, source |-> t.source,
     remote |-> t.remote, path |-> t.path, size |-> t.size,
     modtime |-> t.modtime, ext |-> t.ext, is_media |-> t.is_media,
     media_kind |-> t.media_kind, ignored_reason |-> t.ignored_reason]

\* A files row without its id.
WithoutId(r) ==
    [run_id |-> r.run_id, source |-> r.source, remote |-> r.remote,
     path |-> r.path, size |-> r.size, modtime |-> r.modtime,
     ext |-> r.ext, is_media |-> r.is_media, media_kind |-> r.media_kind,
     ignored_reason |-> r.ignored_reason]

\* InsertOrReplaceFile as a plain INSERT into a table without the UNIQUE
\* constraint.
InsertOrReplaceFile_plain_insert(tbl, t) ==
    [rows |-> tbl.rows \cup {WithId(t, tbl.seq + 1)}, seq |-> tbl.seq + 1]

\* InsertOrReplaceFile as INSERT OR IGNORE: a tuple whose key is taken is
\* dropped.
InsertOrReplaceFile_or_ignore(tbl, t) ==
    IF \E r \in tbl.rows : FileKeyMatch(r, t) THEN tbl
    ELSE [rows |-> tbl.rows \cup {WithId(t, tbl.seq + 1)},
          seq |-> tbl.seq + 1]

\* InsertOrReplaceFile as it would be if the conflict were on run_id and
\* source: the new row takes the place of every row of the run.
InsertOrReplaceFile_replacing_run(tbl, t) ==
    [rows |-> {r \in tbl.rows :
                  r.run_id # t.run_id \/ r.source # t.source}
                \cup {WithId(t, tbl.seq + 1)},
     seq  |-> tbl.seq + 1]

\* INSERT OR REPLACE INTO files of one tuple: the rows that conflict on
\* the UNIQUE key are deleted, the new row takes the next id.
InsertOrReplaceFile(tbl, t) ==
    [rows |-> {r \in tbl.rows : ~FileKeyMatch(r, t)}
                \cup {WithId(t, tbl.seq + 1)},
     seq  |-> tbl.seq + 1]

\* executemany of INSERT OR REPLACE INTO files over a batch, in order.
RECURSIVE ExecuteMany(_, _)
ExecuteMany(tbl, batch) ==
    IF batch = <<>> THEN tbl
    ELSE ExecuteMany(InsertOrReplaceFile(tbl, Head(batch)), Tail(batch))

(***************************************************************************)
(* Processes.                                                              *)
(***************************************************************************)
NoRow ==
    [found |-> FALSE, started_at |-> NULL, listed_at |-> NULL,
     completed_at |-> NULL]

\* The locals of update_chunk (ts, row) and of ingest (batch, total,
\* inserted, pos, the number of lines read from f, and err, the lines
\* written to the error log and still in its buffer), with the history
\* bookkeeping of the invocation: its number, the invocations it has
\* overlapped with, the database and the error log as they were when the
\* invocation began, and the tuples it has committed to files.
IdleFrame ==
    [id |-> 0, peers |-> {}, before |-> View({}, {}, {}),
     log_before |-> <<>>, ts |-> NULL, row |-> NoRow,
     pos |-> 0, batch |-> <<>>, total |-> 0, inserted |-> 0,
     err |-> <<>>, committed |-> <<>>]

IdleArgs ==
    [run_id |-> NoArg, source |-> NoArg, remote |-> NoArg,
     raw_file |-> NoArg, rclone_command |-> NoArg, chunk_name |-> NoArg,
     chunk_status |-> NoArg]

Active == {q \in Procs : pc[q] # "idle"}

\* The processes are interchangeable: a new invocation runs as the first
\* process that is free.
FirstIdle ==
    IF pc["p1"] = "idle" THEN "p1" ELSE "p2"

Init ==
    /\ schema = {}
    /\ runs = {}
    /\ chunks = {}
    /\ files = {}
    /\ sqlite_sequence = 0
    /\ err_log = <<>>
    /\ now = 1
    /\ pc = [p \in Procs |-> "idle"]
    /\ args = [p \in Procs |-> IdleArgs]
    /\ frame = [p \in Procs |-> IdleFrame]
    /\ invocations = 0
    /\ hist = <<>>

\* datetime.now(timezone.utc), to the second: what the clock may show at
\* a reading of update_chunk.  Only the order and equality of timestamps
\* matter, so between two readings the clock stands still or advances by
\* one.  The timestamps ingest writes are never read back by the script:
\* ingest reads the clock as it stands.
ClockReadings == {t \in {now, now + 1} : t <= MaxClock}

\* The invocation of process p ends (return, or an exception that leaves
\* main through conn.close()): it is entered in the history with the
\* database as the step that ends it leaves it.
Finish(p, outcome, fr) ==
    /\ pc' = [pc EXCEPT ![p] = "idle"]
    /\ args' = [args EXCEPT ![p] = IdleArgs]
    /\ frame' = [frame EXCEPT ![p] = IdleFrame]
    /\ hist' = Append(hist,
                  [id |-> fr.id, args |-> args[p], ts |-> fr.ts,
                   outcome |-> outcome, peers |-> fr.peers,
                   before |-> fr.before,
                   after |-> View(runs', chunks', files'),
                   committed |-> fr.committed])

\* main up to the dispatch: process p is started with arguments drawn from
\* argset, connects, and ensure_schema runs.
Main(p, argset) ==
    /\ pc[p] = "idle"
    /\ p = FirstIdle
    /\ \E a \in argset :
        /\ args' = [args EXCEPT ![p] = a]
        /\ pc' = [pc EXCEPT ![p] =
                    IF a.chunk_status # NoArg THEN "update_chunk" ELSE "ingest"]
    /\ schema' = ensure_schema(schema)
    /\ invocations' = invocations + 1
    /\ frame' = [q \in Procs |->
                    IF q = p
                    THEN [IdleFrame EXCEPT
                            !.id = invocations + 1,
                            !.peers = {frame[r].id : r \in Active},
                            !.before = View(runs, chunks, files),
                            !.log_before = err_log]
                    ELSE IF q \in Active
                    THEN [frame[q] EXCEPT !.peers = @ \cup {invocations + 1}]
                    ELSE frame[q]]
    /\ UNCHANGED <<runs, chunks, files, sqlite_sequence, err_log, now, hist>>

(***************************************************************************)
(* update_chunk                                                            *)
(***************************************************************************)
\* UpdateChunkSelect as it would be without the check of chunk_name: an
\* empty name is a key like any other.
UpdateChunkSelect_unchecked(p) ==
    /\ pc[p] = "update_chunk"
    /\ UNCHANGED <<schema, runs, chunks, files, sqlite_sequence, err_log,
                   invocations>>
    /\ now' \in ClockReadings
    /\ frame' = [frame EXCEPT ![p].ts = now',
                              ![p].row = SelectChunk(chunks, args[p])]
    /\ pc' = [pc EXCEPT ![p] = "uc_write"]
    /\ UNCHANGED <<args, hist>>

\* The check of chunk_name, the timestamp and the SELECT (lines 95-105).
\* The SELECT runs outside any transaction: sqlite3 opens one only before
\* an INSERT, UPDATE, DELETE or REPLACE.
UpdateChunkSelect(p) ==
    /\ pc[p] = "update_chunk"
    /\ UNCHANGED <<schema, runs, chunks, files, sqlite_sequence, err_log,
                   invocations>>
    /\ IF args[p].chunk_name = NoArg
       THEN /\ UNCHANGED now
            /\ Finish(p, "ValueError", frame[p])
       ELSE /\ now' \in ClockReadings
            /\ frame' = [frame EXCEPT ![p].ts = now',
                                      ![p].row = SelectChunk(chunks, args[p])]
            /\ pc' = [pc EXCEPT ![p] = "uc_write"]
            /\ UNCHANGED <<args, hist>>

\* The INSERT or UPDATE and the commit (lines 107-159).
UpdateChunkWrite(p) ==
    /\ pc[p] = "uc_write"
    /\ LET w == ChunkWrite(chunks, args[p], args[p].chunk_status,
                           frame[p].row, frame[p].ts)
       IN  /\ chunks' = w.rows
           /\ UNCHANGED <<schema, runs, files, sqlite_sequence, err_log, now,
                          invocations>>
           /\ Finish(p, IF w.ok THEN "ok" ELSE "IntegrityError", frame[p])

(***************************************************************************)
(* ingest                                                                  *)
(***************************************************************************)
\* AfterLine as it would be without the flush after the loop: a last
\* batch that is not full is dropped.
AfterLine_no_final_flush(lines, pos, batch) ==
    IF Len(batch) >= batch_size THEN "flush"
    ELSE IF pos < Len(lines) THEN "loop"
    ELSE "complete"

\* Where ingest goes on after line number pos of the file, with the batch
\* as it is then: to the flush inside the loop, to the next line, or out
\* of the loop and the with block.
AfterLine(lines, pos, batch) ==
    IF Len(batch) >= batch_size THEN "flush"
    ELSE IF pos < Len(lines) THEN "loop"
    ELSE IF batch # <<>> THEN "final_flush"
    ELSE "complete"

\* ErrLogAt as it would be if the log were never closed: what ingest has
\* written to it stays in the buffer.
ErrLogAt_unflushed(log, buf, nextpc) == log

\* The error log after the with block is left at this step (its buffered
\* lines are written when the file is closed), or unchanged inside it.
ErrLogAt(log, buf, nextpc) ==
    IF nextpc \in {"flush", "loop"} THEN log ELSE log \o buf

\* The upsert of the Run row and its commit, then the two open() calls
\* (lines 175-193).
IngestBegin(p) ==
    /\ pc[p] = "ingest"
    /\ runs' = InsertOrReplaceRun(runs, args[p], now)
    /\ UNCHANGED <<schema, chunks, files, sqlite_sequence, err_log, now,
                   invocations>>
    /\ IF args[p].raw_file \notin ExistingFiles
       THEN Finish(p, "FileNotFoundError", frame[p])
       ELSE /\ pc' = [pc EXCEPT ![p] =
                        AfterLine(RawFiles[args[p].raw_file], 0, <<>>)]
            /\ UNCHANGED <<args, frame, hist>>

\* One iteration of "for line in f", up to the test of the batch's length
\* (lines 194-227).
IngestLine(p) ==
    /\ pc[p] = "loop"
    /\ LET lines == RawFiles[args[p].raw_file]
           pos   == frame[p].pos + 1
           r     == ParsedFiles[args[p].raw_file][pos]
           batch == IF r.kind = "record"
                    THEN Append(frame[p].batch,
                                FileTuple(args[p], r,
                                          Classified[args[p].raw_file][pos]))
                    ELSE frame[p].batch
           err   == IF r.kind = "error"
                    THEN Append(frame[p].err, <<r.msg, r.line>>)
                    ELSE frame[p].err
           next  == AfterLine(lines, pos, batch)
       IN  /\ pc' = [pc EXCEPT ![p] = next]
           /\ err_log' = ErrLogAt(err_log, err, next)
           /\ frame' = [frame EXCEPT
                            ![p].pos = pos,
                            ![p].total = @ + 1,
                            ![p].batch = batch,
                            ![p].err = IF next \in {"flush", "loop"}
                                       THEN err ELSE <<>>]
    /\ UNCHANGED <<schema, runs, chunks, files, sqlite_sequence, now, args,
                   invocations, hist>>

\* FailedBatch as it would be if every row were committed on its own: the
\* rows written before the failure stay.
FailedBatch_row_commits(tbl, batch) == InsertOrReplaceFile(tbl, Head(batch))

\* What a batch write that fails leaves in files: the transaction of the
\* executemany is never committed, and conn.close() discards it.
FailedBatch(tbl, batch) == tbl

\* executemany and commit of a batch; the store may fail the write
\* (sqlite3.OperationalError), which ends the invocation.
WriteBatch(p, next) ==
    \/ /\ LET tbl == ExecuteMany([rows |-> files, seq |-> sqlite_sequence],
                                 frame[p].batch)
          IN  /\ files' = tbl.rows
              /\ sqlite_sequence' = tbl.seq
       /\ pc' = [pc EXCEPT ![p] = next]
       /\ err_log' = ErrLogAt(err_log, frame[p].err, next)
       /\ frame' = [frame EXCEPT
                        ![p].inserted = @ + Len(frame[p].batch),
                        ![p].committed = @ \o frame[p].batch,
                        ![p].batch = <<>>,
                        ![p].err = IF next = "loop" THEN @ ELSE <<>>]
       /\ UNCHANGED <<schema, runs, chunks, now, args, invocations, hist>>
    \/ /\ LET tbl == FailedBatch([rows |-> files, seq |-> sqlite_sequence],
                                 frame[p].batch)
          IN  /\ files' = tbl.rows
              /\ sqlite_sequence' = tbl.seq
       /\ err_log' = err_log \o frame[p].err
       /\ UNCHANGED <<schema, runs, chunks, now, invocations>>
       /\ Finish(p, "OperationalError", frame[p])

\* The flush of a full batch inside the loop (lines 227-238).
IngestFlush(p) ==
    /\ pc[p] = "flush"
    /\ WriteBatch(p, AfterLine(RawFiles[args[p].raw_file], frame[p].pos, <<>>))

\* The flush of the last, partial batch (lines 240-250).
IngestFinalFlush(p) ==
    /\ pc[p] = "final_flush"
    /\ WriteBatch(p, "complete")

\* The completion timestamp of the Run row, its commit, and the summary
\* line (lines 252-259).
IngestComplete(p) ==
    /\ pc[p] = "complete"
    /\ runs' = CompleteRun(runs, args[p], now)
    /\ UNCHANGED <<schema, chunks, files, sqlite_sequence, err_log, now,
                   invocations>>
    /\ Finish(p, "ok", frame[p])

\* A supervisor kills a process that runs ingest: nothing uncommitted or
\* buffered reaches the database or the log.
Kill(p) ==
    /\ pc[p] \in {"ingest", "loop", "flush", "final_flush", "complete"}
    /\ UNCHANGED <<schema, runs, chunks, files, sqlite_sequence, err_log,
                   now, invocations>>
    /\ Finish(p, "killed", frame[p])

\* A chunk-status invocation starts.
StartChunk(p) ==
    /\ invocations < MaxChunkCalls
    /\ Main(p, ChunkArgs)

\* An ingest invocation starts.
StartIngest(p) ==
    /\ invocations < MaxIngests
    /\ Main(p, IngestArgs)

\* An invocation of either kind starts.
StartAny(p) ==
    /\ invocations < MaxInvocations
    /\ Main(p, ChunkArgs \cup IngestArgs)

\* Invocations of both kinds.
Next ==
    \E p \in Procs :
        \/ StartAny(p)
        \/ UpdateChunkSelect(p)
        \/ UpdateChunkWrite(p)
        \/ IngestBegin(p)
        \/ IngestLine(p)
        \/ IngestFlush(p)
        \/ IngestFinalFlush(p)
        \/ IngestComplete(p)
        \/ Kill(p)

\* Chunk-status invocations alone: they read and write table chunks only.
NextChunk ==
    \E p \in Procs :
        \/ StartChunk(p)
        \/ UpdateChunkSelect(p)
        \/ UpdateChunkWrite(p)

\* Ingest invocations alone: they write tables runs and files and the
\* error log only.
NextIngest ==
    \E p \in Procs :
        \/ StartIngest(p)
        \/ IngestBegin(p)
        \/ IngestLine(p)
        \/ IngestFlush(p)
        \/ IngestFinalFlush(p)
        \/ IngestComplete(p)
        \/ Kill(p)

Spec == Init /\ [][Next]_vars

SpecChunk == Init /\ [][NextChunk]_vars

SpecIngest == Init /\ [][NextIngest]_vars

(***************************************************************************)
(* Properties of the chunk lifecycle tracker.                              *)
(***************************************************************************)
\* The rows of a chunks table with the key of arguments a.
ChunkRowsOf(tbl, a) == {r \in tbl : ChunkKeyMatch(r, a)}

\* The row of the key of a, where there is exactly one.
TheChunkRow(tbl, a) == CHOOSE r \in tbl : ChunkKeyMatch(r, a)

\* Entry e of the history is a chunk-status invocation that got as far as
\* its SELECT.
IsChunkCall(e) == e.args.chunk_status # NoArg /\ e.args.chunk_name # NoArg

\* Entry e ran with no other invocation active at any time of its run.
Solo(e) == e.peers = {}

\* update_chunk run as one indivisible step on table tbl, with the
\* arguments and the timestamp of history entry e.
SerialChunk(tbl, e) ==
    ChunkWrite(tbl, e.args, e.args.chunk_status, SelectChunk(tbl, e.args),
               e.ts).rows

\* C1: for every chunk key, once started_at, listed_at or completed_at of
\* the chunk row is non-null, no later update_chunk call changes its value
\* (the three timestamps are set-once).
C1_SetOnceTimestamps ==
    [][\A r \in chunks : \A r2 \in chunks' :
          (r.run_id = r2.run_id /\ r.source = r2.source
             /\ r.chunk_name = r2.chunk_name)
          => /\ r.started_at # NULL => r2.started_at = r.started_at
             /\ r.listed_at # NULL => r2.listed_at = r.listed_at
             /\ r.completed_at # NULL => r2.completed_at = r.completed_at]_vars

\* History entries i and j are two update_chunk invocations on the same
\* key that overlapped with each other and with no other invocation.
ConcurrentChunkPair(i, j) ==
    /\ i # j
    /\ hist[i].id < hist[j].id
    /\ IsChunkCall(hist[i]) /\ IsChunkCall(hist[j])
    /\ hist[i].args.chunk_name = hist[j].args.chunk_name
    /\ hist[i].peers = {hist[j].id}
    /\ hist[j].peers = {hist[i].id}

\* The table chunks after both invocations of a pair have ended.
AfterBoth(i, j) == hist[IF i < j THEN j ELSE i].after.chunks

\* C2: the chunk upsert is atomic under concurrent callers: two
\* update_chunk invocations on the same key, run by different processes
\* with their SELECT and write steps interleaved in any way, both succeed,
\* and the chunk row is the one that one of the two serial orders of the
\* calls produces.
C2_AtomicUpsert ==
    \A i, j \in 1..Len(hist) :
        ConcurrentChunkPair(i, j) =>
            /\ hist[i].outcome = "ok"
            /\ hist[j].outcome = "ok"
            /\ LET s0 == hist[i].before.chunks IN
               AfterBoth(i, j) \in
                  { SerialChunk(SerialChunk(s0, hist[i]), hist[j]),
                    SerialChunk(SerialChunk(s0, hist[j]), hist[i]) }

\* History entries i, i+1, i+2 are update_chunk calls with status listing,
\* listed, ingested on a key that had no row, made one after the other.
LifecycleTriple(i) ==
    /\ i + 2 <= Len(hist)
    /\ \A k \in i..(i + 2) :
          /\ IsChunkCall(hist[k]) /\ Solo(hist[k])
          /\ hist[k].args.chunk_name = hist[i].args.chunk_name
    /\ hist[i].args.chunk_status = "listing"
    /\ hist[i + 1].args.chunk_status = "listed"
    /\ hist[i + 2].args.chunk_status = "ingested"
    /\ ChunkRowsOf(hist[i].before.chunks, hist[i].args) = {}

\* C3: calling update_chunk with status listing, then listed, then
\* ingested for the same chunk key leaves started_at equal to the timestamp
\* of the first call after each of the three calls; listed_at is written
\* by the listed call only and completed_at by the ingested call only, and
\* the status ends as ingested.
C3_Lifecycle ==
    \A i \in 1..Len(hist) :
        LifecycleTriple(i) =>
            LET a  == hist[i].args
                r1 == TheChunkRow(hist[i].after.chunks, a)
                r2 == TheChunkRow(hist[i + 1].after.chunks, a)
                r3 == TheChunkRow(hist[i + 2].after.chunks, a)
            IN  /\ \A k \in i..(i + 2) :
                      /\ hist[k].outcome = "ok"
                      /\ Cardinality(ChunkRowsOf(hist[k].after.chunks, a)) = 1
                /\ r1.started_at = hist[i].ts
                /\ r2.started_at = hist[i].ts
                /\ r3.started_at = hist[i].ts
                /\ r1.listed_at = NULL
                /\ r2.listed_at = hist[i + 1].ts
                /\ r3.listed_at = hist[i + 1].ts
                /\ r1.completed_at = NULL
                /\ r2.completed_at = NULL
                /\ r3.completed_at = hist[i + 2].ts
                /\ r3.status = "ingested"

\* C3, witness: the three calls have been made, and the clock advanced
\* between the first and the last.
C3_Witness ==
    \E i \in 1..Len(hist) :
        LifecycleTriple(i) /\ hist[i].ts < hist[i + 2].ts

(***************************************************************************)
(* Properties of ingest.                                                   *)
(***************************************************************************)
\* Entry e of the history is an ingest invocation.
IsIngest(e) == e.args.chunk_status = NoArg

\* The rows of a files table without their ids.
Rows(tbl) == {WithoutId(r) : r \in tbl}

\* The rows of a files table under the (run_id, source) of arguments a.
FilesOf(tbl, a) == {r \in tbl : r.run_id = a.run_id /\ r.source = a.source}

\* No two rows of a files table have the same (run_id, source, path).
UniqueFiles(tbl) ==
    \A r1, r2 \in tbl :
        (r1.run_id = r2.run_id /\ r1.source = r2.source /\ r1.path = r2.path)
        => r1 = r2

\* The valid records of the raw file of arguments a, as tuples.
Listing(a) == ValidTuples(a, Len(RawFiles[a.raw_file]))

\* The paths a sequence of tuples lists.
Paths(tuples) == {tuples[k].path : k \in 1..Len(tuples)}

\* The last tuple of a sequence that lists path.
LastOf(tuples, path) ==
    tuples[CHOOSE k \in 1..Len(tuples) :
              /\ tuples[k].path = path
              /\ \A m \in (k + 1)..Len(tuples) : tuples[m].path # path]

\* History entries i and i+1 are ingest invocations made one after the
\* other, the first of them successful, the second not stopped from
\* outside (by a failure of the store, or killed).
IngestTwice(i) ==
    /\ i + 1 <= Len(hist)
    /\ IsIngest(hist[i]) /\ IsIngest(hist[i + 1])
    /\ Solo(hist[i]) /\ Solo(hist[i + 1])
    /\ hist[i].args.run_id = hist[i + 1].args.run_id
    /\ hist[i].args.source = hist[i + 1].args.source
    /\ hist[i].outcome = "ok"
    /\ hist[i + 1].args.raw_file \in ExistingFiles
    /\ hist[i + 1].outcome \notin {"OperationalError", "killed"}

\* C4: ingest is idempotent: running ingest twice in sequence with the
\* same raw file for the same (run_id, source) succeeds and leaves the
\* same set of file rows (compared without the id) as running it once,
\* with no two rows of the same (run_id, source, path).
C4_IngestIdempotent ==
    \A i \in 1..Len(hist) :
        (IngestTwice(i) /\ hist[i].args = hist[i + 1].args) =>
            /\ hist[i + 1].outcome = "ok"
            /\ Rows(hist[i + 1].after.files) = Rows(hist[i].after.files)
            /\ UniqueFiles(hist[i + 1].after.files)
            /\ Cardinality(hist[i + 1].after.files)
                  = Cardinality(hist[i].after.files)

\* C4, witness: a raw file with valid records has been ingested twice in
\* sequence.
C4_Witness ==
    \E i \in 1..Len(hist) :
        /\ IngestTwice(i) /\ hist[i].args = hist[i + 1].args
        /\ hist[i + 1].after.files # {}

\* C5: re-ingest overwrites per path: after ingest of listing L1 followed
\* by ingest of listing L2 for the same (run_id, source), every path that
\* occurs in L2 has exactly one file row, and that row carries the size,
\* modtime and classification L2 gives the path (at its last occurrence).
C5_ReingestOverwrites ==
    \A i \in 1..Len(hist) :
        IngestTwice(i) =>
            LET a  == hist[i + 1].args
                l2 == Listing(a)
                t  == FilesOf(hist[i + 1].after.files, a)
            IN  \A path \in Paths(l2) :
                    /\ Cardinality({r \in t : r.path = path}) = 1
                    /\ LastOf(l2, path) \in Rows(t)

\* C5, witness: the second listing gives a path of the first another size.
C5_Witness ==
    \E i \in 1..Len(hist) :
        /\ IngestTwice(i)
        /\ \E t1 \in Rows(hist[i].after.files) :
           \E t2 \in Rows(hist[i + 1].after.files) :
               t1.path = t2.path /\ t1.size # t2.size

\* History entries i and j are two ingest invocations under the same
\* (run_id, source) with different raw files that overlapped with each
\* other and with no other invocation, and both completed.
ConcurrentIngestPair(i, j) ==
    /\ i # j
    /\ hist[i].id < hist[j].id
    /\ IsIngest(hist[i]) /\ IsIngest(hist[j])
    /\ hist[i].args.run_id = hist[j].args.run_id
    /\ hist[i].args.source = hist[j].args.source
    /\ hist[i].args.raw_file # hist[j].args.raw_file
    /\ hist[i].peers = {hist[j].id}
    /\ hist[j].peers = {hist[i].id}
    /\ hist[i].outcome = "ok" /\ hist[j].outcome = "ok"

\* C6: for two ingest invocations running concurrently under the same
\* (run_id, source) with different raw files, in every interleaving of
\* their batch commits, once both have completed the file rows of that
\* (run_id, source) are one per path of the union of the two inputs' valid
\* records (and of the rows there were before), and every record either
\* invocation committed is in the table unless a record of the same path
\* from the two inputs replaced it.
C6_ConcurrentIngestUnion ==
    \A i, j \in 1..Len(hist) :
        ConcurrentIngestPair(i, j) =>
            LET a     == hist[i].args
                both  == Listing(hist[i].args) \o Listing(hist[j].args)
                was   == FilesOf(hist[i].before.files, a)
                t     == FilesOf(hist[IF i < j THEN j ELSE i].after.files, a)
            IN  /\ Cardinality(t)
                     = Cardinality(Paths(both) \cup {r.path : r \in was})
                /\ hist[i].committed = Listing(hist[i].args)
                /\ hist[j].committed = Listing(hist[j].args)
                /\ \A path \in Paths(both) :
                      \E r \in Rows(t) :
                          /\ r.path = path
                          /\ \E k \in 1..Len(both) : both[k] = r

\* C6, witness: two concurrent ingests of different raw files that share a
\* path have completed on a table that was empty, their commits
\* interleaved: the first to start ended last.
C6_Witness ==
    \E i, j \in 1..Len(hist) :
        /\ ConcurrentIngestPair(i, j)
        /\ hist[i].before.files = {}
        /\ j < i
        /\ Paths(Listing(hist[i].args)) \cap Paths(Listing(hist[j].args)) # {}

\* C8: if an ingest invocation aborts on a batch-write failure of the
\* store, the Run row of its (run_id, source) has a null completed_at when
\* the invocation ends.
C8_AbortLeavesRunIncomplete ==
    \A i \in 1..Len(hist) :
        (IsIngest(hist[i]) /\ hist[i].outcome = "OperationalError") =>
            \A r \in hist[i].after.runs :
                RunKeyMatch(r, hist[i].args) => r.completed_at = NULL

\* C9: if opening the raw listing file fails, the ingest invocation aborts
\* without having written or overwritten any Run row: table runs is as it
\* was before the invocation (no other invocation running meanwhile).
C9_OpenFailureWritesNoRun ==
    \A i \in 1..Len(hist) :
        (IsIngest(hist[i]) /\ Solo(hist[i])
            /\ hist[i].outcome = "FileNotFoundError") =>
            hist[i].after.runs = hist[i].before.runs

\* Files rows (without ids) after the tuples of a sequence have been
\* upserted into them in order, whole.
RECURSIVE Upserted(_, _)
Upserted(rows, tuples) ==
    IF tuples = <<>> THEN rows
    ELSE Upserted({r \in rows : ~(r.run_id = Head(tuples).run_id
                                   /\ r.source = Head(tuples).source
                                   /\ r.path = Head(tuples).path)}
                    \cup {Head(tuples)},
                  Tail(tuples))

\* The tuples committed are whole batches of the listing, in order: a
\* number of full batches, or the entire listing.
WholeBatches(committed, a) ==
    /\ Len(committed) <= Len(Listing(a))
    /\ committed = SubSeq(Listing(a), 1, Len(committed))
    /\ \/ Len(committed) % batch_size = 0
       \/ committed = Listing(a)

\* C10: at every point of an ingest invocation, the valid records read so
\* far and not yet committed are the batch in memory and number at most
\* one batch, and the records the invocation has committed are a prefix of
\* the raw file's valid records made of whole batches; an invocation that
\* is killed or fails leaves only whole batches in table files (shown for
\* invocations that no other invocation overlaps).
C10_AtMostOneBatchInFlight ==
    /\ \A p \in Procs :
          pc[p] \in {"loop", "flush", "final_flush", "complete"} =>
              /\ Len(frame[p].batch) <= batch_size
              /\ frame[p].committed \o frame[p].batch
                    = ValidTuples(args[p], frame[p].pos)
              /\ WholeBatches(frame[p].committed, args[p])
              /\ frame[p].peers = {} =>
                    Rows(files) = Upserted(Rows(frame[p].before.files),
                                           frame[p].committed)
    /\ \A i \in 1..Len(hist) :
          (IsIngest(hist[i]) /\ hist[i].args.raw_file \in ExistingFiles) =>
              /\ WholeBatches(hist[i].committed, hist[i].args)
              /\ Solo(hist[i]) =>
                    Rows(hist[i].after.files)
                       = Upserted(Rows(hist[i].before.files),
                                  hist[i].committed)

\* C10, witness: an invocation was stopped by a failure of the store or
\* killed after it had committed one batch and not the whole listing, and
\* another holds a full batch in memory.
C10_Witness ==
    /\ \E i \in 1..Len(hist) :
          /\ IsIngest(hist[i]) /\ Solo(hist[i])
          /\ hist[i].outcome \in {"OperationalError", "killed"}
          /\ Len(hist[i].committed) = batch_size
          /\ hist[i].committed # Listing(hist[i].args)
    /\ \E p \in Procs :
          pc[p] = "flush" /\ Len(frame[p].batch) = batch_size

(***************************************************************************)
(* Properties of the store.                                                *)
(***************************************************************************)
\* C7: in every reachable state, after any sequence and interleaving of
\* invocations (re-runs and inputs that list a path more than once
\* included), table files holds at most one row per (run_id, source, path),
\* table runs at most one row per (run_id, source), and table chunks at
\* most one row per (run_id, source, chunk_name).
C7_UniqueKeys ==
    /\ UniqueFiles(files)
    /\ \A r1, r2 \in runs :
          (r1.run_id = r2.run_id /\ r1.source = r2.source) => r1 = r2
    /\ \A r1, r2 \in chunks :
          (r1.run_id = r2.run_id /\ r1.source = r2.source
             /\ r1.chunk_name = r2.chunk_name) => r1 = r2

\* C7, witness: a files row has been replaced (more ids were given out
\* than there are rows), and there are a Run row and a chunk row.
C7_Witness ==
    /\ sqlite_sequence > Cardinality(files)
    /\ files # {}
    /\ runs # {}
    /\ chunks # {}

(***************************************************************************)
(* Properties of the line parser.                                          *)
(***************************************************************************)
\* The entries the first n lines of raw file f put in the error log.
RECURSIVE Quarantined(_, _)
Quarantined(f, n) ==
    IF n = 0 THEN <<>>
    ELSE LET r == ParsedFiles[f][n] IN
         Quarantined(f, n - 1) \o
            (IF r.kind = "error" THEN <<<<r.msg, r.line>>>> ELSE <<>>)

\* The number of lines of raw file f that are blank once stripped.
BlankLines(f) ==
    Cardinality({k \in 1..Len(RawFiles[f]) : ParsedFiles[f][k].kind = "blank"})

\* The paths of the rows of a files table.
PathsIn(tbl) == {r.path : r \in tbl}

\* C11: a malformed line (fewer than 4 fields, or a size that is not an
\* integer) does not end the ingest.  When ingest has left the loop with no
\* failure of the store, every line was read (total is the number of lines
\* of the file), total is the number of blank lines plus the number of
\* quarantined lines plus the number of records inserted, every valid
\* record (those after a malformed line too) was committed, the error log
\* holds one entry per malformed line of the file, in order, after what it
\* held before (where no other invocation ran meanwhile), and the
\* malformed lines have made no row of files.
C11_MalformedLinesQuarantined ==
    \A p \in Procs :
        pc[p] = "complete" =>
            LET f    == args[p].raw_file
                errs == Quarantined(f, Len(RawFiles[f]))
            IN  /\ frame[p].total = Len(RawFiles[f])
                /\ frame[p].total =
                      BlankLines(f) + Len(errs) + frame[p].inserted
                /\ frame[p].inserted = Len(Listing(args[p]))
                /\ frame[p].committed = Listing(args[p])
                /\ \E k \in Len(frame[p].log_before)..(Len(err_log) - Len(errs)) :
                      SubSeq(err_log, k + 1, k + Len(errs)) = errs
                /\ frame[p].peers = {} =>
                      /\ err_log = frame[p].log_before \o errs
                      /\ PathsIn(files) =
                            PathsIn(frame[p].before.files)
                               \cup Paths(Listing(args[p]))

\* C11, witness: an ingest of f1 has left the loop; the line "x d t c.txt"
\* is in the error log as an invalid size, the line "30 d t" as
\* unparseable, no row has path c.txt, and the record of the line after
\* them is in files.
C11_Witness ==
    \E p \in Procs :
        /\ pc[p] = "complete"
        /\ args[p].raw_file = "f1"
        /\ \E k \in 1..Len(err_log) :
              err_log[k] = <<"Invalid size: ",
                             <<"x", " ", "d", " ", "t", " ",
                               "c", ".", "t", "x", "t">>>>
        /\ \E k \in 1..Len(err_log) :
              err_log[k] = <<"Unparseable line: ",
                             <<"3", "0", " ", "d", " ", "t">>>>
        /\ <<"c", ".", "t", "x", "t">> \notin PathsIn(files)
        /\ <<"n", " ", "o">> \in PathsIn(files)

(***************************************************************************)
(* A catalogue that has been in use: chunk-status invocations on a         *)
(* database that earlier invocations have filled.                          *)
(***************************************************************************)
\* The arguments of an earlier chunk-status invocation.
SeedChunkArgs(name, status) ==
    [run_id |-> "r1", source |-> "s1", remote |-> "gdrive:",
     raw_file |-> "f1", rclone_command |-> "rclone lsl",
     chunk_name |-> name, chunk_status |-> status]

\* The arguments of an earlier ingest, of raw file f1.
SeedIngestArgs ==
    [run_id |-> "r1", source |-> "s1", remote |-> "gdrive:",
     raw_file |-> "f1", rclone_command |-> "rclone lsl",
     chunk_name |-> NoArg, chunk_status |-> NoArg]

\* Table chunks after update_chunk(name, status) has run on it at second 1.
AfterChunkCall(tbl, name, status) ==
    LET a == SeedChunkArgs(name, status) IN
    ChunkWrite(tbl, a, status, SelectChunk(tbl, a), 1).rows

\* Table chunks after chunk c2 was listed.
OtherChunkListed ==
    AfterChunkCall(AfterChunkCall({}, "c2", "listing"), "c2", "listed")

\* What table chunks may hold when the invocations observed begin: the row
\* of chunk c2, and for chunk c1 no row, or the row that a first call
\* with status error has made.
SeededChunks ==
    { OtherChunkListed,
      AfterChunkCall(OtherChunkListed, "c1", "error") }

\* The database after an ingest of f1 and the chunk-status invocations
\* above, all at second 1 and one after the other.
InitSeeded ==
    /\ schema = ensure_schema({})
    /\ runs = CompleteRun(InsertOrReplaceRun({}, SeedIngestArgs, 1),
                          SeedIngestArgs, 1)
    /\ chunks \in SeededChunks
    /\ LET tbl == ExecuteMany([rows |-> {}, seq |-> 0],
                              Listing(SeedIngestArgs))
       IN  /\ files = tbl.rows
           /\ sqlite_sequence = tbl.seq
    /\ err_log = Quarantined("f1", Len(RawFiles["f1"]))
    /\ now = 1
    /\ pc = [p \in Procs |-> "idle"]
    /\ args = [p \in Procs |-> IdleArgs]
    /\ frame = [p \in Procs |-> IdleFrame]
    /\ invocations = 0
    /\ hist = <<>>

\* A chunk-status invocation that drives a chunk on starts: it has a
\* chunk name and one of the statuses listing, listed, ingested.
StartNamedChunk(p) ==
    /\ invocations < MaxChunkCalls
    /\ Main(p, {a \in ChunkArgs :
                  a.chunk_name # NoArg /\ a.chunk_status # "error"})

NextSeeded ==
    \E p \in Procs :
        \/ StartNamedChunk(p)
        \/ UpdateChunkSelect(p)
        \/ UpdateChunkWrite(p)

SpecSeeded == InitSeeded /\ [][NextSeeded]_vars

\* History entries i, i+1 and i+2 are chunk-status invocations on one key
\* with statuses listing, listed and ingested, made one after the other.
Redrive(i) ==
    /\ i + 2 <= Len(hist)
    /\ \A k \in i..(i + 2) :
          /\ IsChunkCall(hist[k]) /\ Solo(hist[k])
          /\ hist[k].args.chunk_name = hist[i].args.chunk_name
    /\ hist[i].args.chunk_status = "listing"
    /\ hist[i + 1].args.chunk_status = "listed"
    /\ hist[i + 2].args.chunk_status = "ingested"

\* C12: a chunk whose row has status error can be driven again.  An
\* update_chunk call with status listing, made with no other invocation
\* running, on a key whose row has status error succeeds and leaves the
\* row with status listing; and when calls with status listed and ingested
\* follow it, one after the other, both succeed and the row ends with
\* status ingested and its three timestamps set.
C12_ErrorChunkRedriven ==
    \A i \in 1..Len(hist) :
        LET e == hist[i] IN
        ( /\ IsChunkCall(e) /\ Solo(e)
          /\ e.args.chunk_status = "listing"
          /\ \E r \in ChunkRowsOf(e.before.chunks, e.args) :
                r.status = "error" )
        => /\ e.outcome = "ok"
           /\ Cardinality(ChunkRowsOf(e.after.chunks, e.args)) = 1
           /\ TheChunkRow(e.after.chunks, e.args).status = "listing"
           /\ Redrive(i) =>
                 LET r == TheChunkRow(hist[i + 2].after.chunks, e.args)
                 IN  /\ hist[i + 1].outcome = "ok"
                     /\ hist[i + 2].outcome = "ok"
                     /\ TheChunkRow(hist[i + 1].after.chunks,
                                    e.args).status = "listed"
                     /\ r.status = "ingested"
                     /\ r.started_at # NULL
                     /\ r.listed_at # NULL
                     /\ r.completed_at # NULL

\* C12, witness: the row of chunk c1 had status error and no timestamp;
\* calls with listing, listed and ingested followed, and the row has
\* status ingested.
C12_Witness ==
    /\ Len(hist) = 3
    /\ Redrive(1)
    /\ \E r \in ChunkRowsOf(hist[1].before.chunks, hist[1].args) :
          r.status = "error" /\ r.started_at = NULL
    /\ \E r \in chunks : r.chunk_name = "c1" /\ r.status = "ingested"

(***************************************************************************)
(* Properties of the dispatch in main.                                     *)
(***************************************************************************)
\* C13: an invocation with a chunk status and no chunk name (empty or
\* absent) fails with the validation error (ValueError), and writes no
\* row: tables runs, chunks and files are after it as they were before it
\* (compared where no other invocation ran meanwhile).
C13_MissingChunkNameRejected ==
    \A i \in 1..Len(hist) :
        LET e == hist[i] IN
        (e.args.chunk_status # NoArg /\ e.args.chunk_name = NoArg)
        => /\ e.outcome = "ValueError"
           /\ Solo(e) => e.after = e.before

\* C13, witness: such an invocation has failed on a database that held a
\* Run row and rows of files.
C13_Witness ==
    \E i \in 1..Len(hist) :
        /\ hist[i].args.chunk_status # NoArg
        /\ hist[i].args.chunk_name = NoArg
        /\ hist[i].outcome = "ValueError"
        /\ Solo(hist[i])
        /\ hist[i].before.runs # {}
        /\ hist[i].before.files # {}
        /\ files = hist[i].before.files

\* The rows of a chunks table with another key than that of arguments a.
OtherChunkRows(tbl, a) ==
    {r \in tbl : \/ r.run_id # a.run_id
                 \/ r.source # a.source
                 \/ r.chunk_name # a.chunk_name}

\* C14: an invocation with a chunk status does the lifecycle update and
\* nothing else.  Tables runs and files, and every chunk row of another
\* key, are after it as they were before it (all the invocations here are
\* chunk-status invocations, so this is compared for overlapping ones
\* too), whatever --raw-file it was given; and made with no other
\* invocation running, it leaves exactly one row of its key.  The ids of
\* files and the error log are never touched.
C14_ChunkStatusOnlyUpdatesItsRow ==
    /\ \A i \in 1..Len(hist) :
          LET e == hist[i] IN
          e.args.chunk_status # NoArg
          => /\ e.after.runs = e.before.runs
             /\ e.after.files = e.before.files
             /\ OtherChunkRows(e.after.chunks, e.args) =
                   OtherChunkRows(e.before.chunks, e.args)
             /\ Solo(e) =>
                   /\ e.outcome = "ok"
                   /\ Cardinality(ChunkRowsOf(e.after.chunks, e.args)) = 1
                   /\ TheChunkRow(e.after.chunks, e.args).status =
                         e.args.chunk_status
    /\ \A p \in Procs :
          pc[p] \in {"update_chunk", "uc_write"}
          => /\ runs = frame[p].before.runs
             /\ files = frame[p].before.files
             /\ err_log = frame[p].log_before
             /\ OtherChunkRows(chunks, args[p]) =
                   OtherChunkRows(frame[p].before.chunks, args[p])

\* C14, witness: a call has inserted the row of chunk c1 and a later call
\* has updated it, in a database with a Run row, rows of files and the row
\* of chunk c2, which are all still there.
C14_Witness ==
    /\ Len(hist) >= 2
    /\ Solo(hist[1]) /\ Solo(hist[2])
    /\ hist[1].outcome = "ok" /\ hist[2].outcome = "ok"
    /\ ChunkRowsOf(hist[1].before.chunks, hist[1].args) = {}
    /\ OtherChunkRows(hist[1].before.chunks, hist[1].args) # {}
    /\ hist[2].after.chunks # hist[2].before.chunks
    /\ Cardinality(chunks) = 2
    /\ runs # {}
    /\ files # {}

(***************************************************************************)
(* Termination of ingest.                                                  *)
(***************************************************************************)
\* A step of the ingest that process p runs.
IngestStep(p) ==
    \/ IngestBegin(p)
    \/ IngestLine(p)
    \/ IngestFlush(p)
    \/ IngestFinalFlush(p)
    \/ IngestComplete(p)

\* An ingest invocation starts, of as many as there are processes: they
\* run side by side or one after the other.
StartIngestOnce(p) ==
    /\ invocations < Cardinality(Procs)
    /\ Main(p, IngestArgs)

NextIngestOnce ==
    \E p \in Procs :
        \/ StartIngestOnce(p)
        \/ IngestStep(p)
        \/ Kill(p)

\* Ingest invocations, each process of which goes on running for as long
\* as it has a step to take: the script waits for nothing but the file
\* system and the database, and sqlite3 answers a busy database with an
\* error after its timeout.
SpecIngestFair ==
    /\ Init
    /\ [][NextIngestOnce]_vars
    /\ \A p \in Procs : WF_vars(IngestStep(p))

\* The Run rows of a runs table under the key of arguments a.
RunRowsOf(tbl, a) == {r \in tbl : r.run_id = a.run_id /\ r.source = a.source}

\* An ingest that has ended with no failure has committed every valid
\* record of its file, each of which has a row in files, and has left the
\* Run row of its key with completed_at set.
CompletedIngestIsWhole ==
    \A i \in 1..Len(hist) :
        LET e == hist[i] IN
        (IsIngest(e) /\ e.outcome = "ok")
        => /\ e.committed = Listing(e.args)
           /\ Paths(Listing(e.args)) \subseteq PathsIn(FilesOf(e.after.files,
                                                               e.args))
           /\ Paths(Listing(e.args)) \subseteq PathsIn(FilesOf(files, e.args))
           /\ RunRowsOf(e.after.runs, e.args) # {}
           /\ \A r \in RunRowsOf(e.after.runs, e.args) :
                 r.completed_at # NULL

\* While an ingest runs with no other invocation beside it, the Run row
\* of its key has completed_at null from the upsert on.
IncompleteWhileRunning ==
    \A p \in Procs :
        (pc[p] \in {"loop", "flush", "final_flush", "complete"}
           /\ frame[p].peers = {})
        => /\ RunRowsOf(runs, args[p]) # {}
           /\ \A r \in RunRowsOf(runs, args[p]) : r.completed_at = NULL

\* A step that gives a Run row a completion timestamp is the last step of
\* an ingest of that key that has committed all its batches, and ends it.
CompletionIsLastStep ==
    \A r \in runs' :
        (r.completed_at # NULL /\ r \notin runs)
        => \E p \in Procs :
              /\ pc[p] = "complete" /\ pc'[p] = "idle"
              /\ r.run_id = args[p].run_id /\ r.source = args[p].source
              /\ frame[p].batch = <<>>
              /\ frame[p].committed = Listing(args[p])

\* C15: every ingest of a (finite) raw file terminates; when it ends with
\* no failure of the store or of the file system, completed_at of the Run
\* row is set and every valid record of the file has a row in files; and
\* completed_at is written once in an invocation, by its last step, after
\* the last batch was committed.
C15_IngestTerminatesComplete ==
    /\ \A p \in Procs : (pc[p] # "idle") ~> (pc[p] = "idle")
    /\ []CompletedIngestIsWhole
    /\ []IncompleteWhileRunning
    /\ [][CompletionIsLastStep]_vars

\* C15, witness: an ingest of f2 (a flush in the loop and a last batch of
\* one) has ended with no failure, and the Run row has completed_at set.
C15_Witness ==
    \E i \in 1..Len(hist) :
        /\ IsIngest(hist[i])
        /\ hist[i].outcome = "ok"
        /\ hist[i].args.raw_file = "f2"
        /\ Len(hist[i].committed) = 3
        /\ \E r \in runs : r.completed_at # NULL

(***************************************************************************)
(* Properties of the rows of files.                                        *)
(***************************************************************************)
\* C16: every row of files has a size that is a non-negative integer
\* (the rows come from the lines whose size field parses as an integer).
C16_NonNegativeSize ==
    \A r \in files : r.size \in Nat

(***************************************************************************)
(* More properties of the chunk lifecycle tracker.                         *)
(***************************************************************************)
\* C17: an update_chunk call with status error, made with no other
\* invocation running, succeeds; on a key that has a row it leaves
\* started_at, listed_at and completed_at of the row as they were and sets
\* status to error and updated_at to the timestamp of the call; on a key
\* that has no row it makes the row, with the three timestamps null.
C17_ErrorKeepsTimestamps ==
    \A i \in 1..Len(hist) :
        LET e == hist[i] IN
        (IsChunkCall(e) /\ Solo(e) /\ e.args.chunk_status = "error")
        => /\ e.outcome = "ok"
           /\ Cardinality(ChunkRowsOf(e.after.chunks, e.args)) = 1
           /\ LET new == TheChunkRow(e.after.chunks, e.args)
              IN  /\ new.status = "error"
                  /\ new.updated_at = e.ts
                  /\ IF ChunkRowsOf(e.before.chunks, e.args) = {}
                     THEN /\ new.started_at = NULL
                          /\ new.listed_at = NULL
                          /\ new.completed_at = NULL
                     ELSE LET old == TheChunkRow(e.before.chunks, e.args)
                          IN  /\ new.started_at = old.started_at
                              /\ new.listed_at = old.listed_at
                              /\ new.completed_at = old.completed_at

\* C17, witness: the first call on a key had status error and has made
\* the row; and a call with status error has been made at second 2 on a
\* row that had listed_at set at second 1, and it has changed the row.
C17_Witness ==
    /\ \E i \in 1..Len(hist) :
          /\ IsChunkCall(hist[i]) /\ Solo(hist[i])
          /\ hist[i].args.chunk_status = "error"
          /\ ChunkRowsOf(hist[i].before.chunks, hist[i].args) = {}
          /\ hist[i].outcome = "ok"
    /\ \E i \in 1..Len(hist) :
          /\ IsChunkCall(hist[i]) /\ Solo(hist[i])
          /\ hist[i].args.chunk_status = "error"
          /\ hist[i].ts = 2
          /\ \E old \in ChunkRowsOf(hist[i].before.chunks, hist[i].args) :
                old.listed_at = 1 /\ old.status = "listed"
          /\ \E new \in ChunkRowsOf(hist[i].after.chunks, hist[i].args) :
                new.listed_at = 1 /\ new.status = "error"
                   /\ new.updated_at = 2

\* C18: in every reachable state, after any sequence and any interleaving
\* of update_chunk calls, the status of each chunk row agrees with its
\* timestamps: status listing implies started_at is not null, status
\* listed implies listed_at is not null, and status ingested implies
\* completed_at is not null.
C18_StatusAgreesWithTimestamps ==
    \A r \in chunks :
        /\ r.status = "listing" => r.started_at # NULL
        /\ r.status = "listed" => r.listed_at # NULL
        /\ r.status = "ingested" => r.completed_at # NULL

\* C18, witness: two calls have overlapped, the later write was made from
\* a row read before the earlier one (the row has status listing, and the
\* listed_at the other call had set is gone), and started_at is set.
C18_Witness ==
    /\ Len(hist) >= 2
    /\ \E i \in 1..Len(hist) :
          /\ hist[i].peers # {}
          /\ hist[i].outcome = "ok"
          /\ hist[i].args.chunk_status = "listed"
    /\ \E r \in chunks :
          /\ r.status = "listing"
          /\ r.started_at # NULL
          /\ r.listed_at = NULL

(***************************************************************************)
(* Properties of the Run row under concurrent ingests.                     *)
(***************************************************************************)
\* C19: in every reachable state, with several ingest invocations running
\* at once for one (run_id, source), a Run row with completed_at set means
\* that no ingest of that key is in progress and none has ended with
\* records unwritten: every valid record of every raw file whose ingest
\* has begun for the key (it has opened the file, beside another
\* invocation) has a row in files.
C19_CompletedMeansAllWritten ==
    \A r \in runs :
        r.completed_at # NULL
        => /\ \A p \in Procs :
                 ~( /\ pc[p] \in {"loop", "flush", "final_flush", "complete"}
                    /\ args[p].run_id = r.run_id
                    /\ args[p].source = r.source )
           /\ \A i \in 1..Len(hist) :
                 LET e == hist[i] IN
                 ( /\ IsIngest(e)
                   /\ e.peers # {}
                   /\ e.outcome \in {"ok", "OperationalError"}
                   /\ e.args.run_id = r.run_id
                   /\ e.args.source = r.source )
                 => Paths(Listing(e.args)) \subseteq
                       PathsIn(FilesOf(files, e.args))

(***************************************************************************)
(* Rows of files are never removed.                                        *)
(***************************************************************************)
\* The (run_id, source, path) keys of a files table.
FileKeys(tbl) == {<<r.run_id, r.source, r.path>> : r \in tbl}

\* C20: rows of files are never removed.  Over any sequence and
\* interleaving of ingest and chunk-status invocations the set of
\* (run_id, source, path) keys in files only grows: no step takes a key
\* out of files; so after an ingest with a listing that no longer has a
\* path, the row of that path is still there.
C20_FileRowsNeverRemoved ==
    [][FileKeys(files) \subseteq FileKeys(files')]_vars

\* C20, witness: f2 was ingested, then f1, which does not list b.MOV; the
\* second ingest has replaced the row of a.jpg, and the row of b.MOV is
\* still in files.
C20_Witness ==
    /\ Len(hist) = 2
    /\ hist[1].args.raw_file = "f2" /\ hist[1].outcome = "ok"
    /\ hist[2].args.raw_file = "f1" /\ hist[2].outcome = "ok"
    /\ Solo(hist[2])
    /\ <<"b", ".", "M", "O", "V">> \notin Paths(Listing(hist[2].args))
    /\ <<"b", ".", "M", "O", "V">> \in PathsIn(files)
    /\ \E r \in files : r.path = <<"a", ".", "j", "p", "g">> /\ r.size = 10

====
